---------------------------- MODULE Spec2Model ----------------------------
(***************************************************************************)
(* A model of extract360.py: the cluster-address correction (get_cluster), *)
(* the directory-record scanner with its block reader (fill_directory) and *)
(* the common part of the LIVE/PIRS and CON handlers (write_common_part:   *)
(* master hash, content type, metadata, icons, directory, hash table).     *)
(*                                                                         *)
(* The program is sequential.  pc is the place in the code, stack holds    *)
(* the places to return to (write_common_part calls fill_directory, which  *)
(* calls get_cluster), and an uncaught Python exception ends the run with  *)
(* pc = "error" and err naming the exception.                              *)
(*                                                                         *)
(* Paths are sequences of names: the path string "a/b/" is <<"a", "b">>,   *)
(* so the number of "/" in a path string is the length of the sequence.    *)
(* Names are taken without "/" and without NUL.  The working directory cwd *)
(* is kept relative to the output directory <basename>.dir; <<"..">> is    *)
(* the directory the program was started in.  File contents are kept as    *)
(* the extents of the container they were read from.  Time stamps          *)
(* (do_utime) are not part of the state.                                   *)
(***************************************************************************)
EXTENDS Integers, Sequences, FiniteSets, TLC

(***************************************************************************)
(* Program constants.                                                      *)
(***************************************************************************)
BandSize == 170
ClusterBytes == 4096
RecordBytes == 64
MinSize == 53248
RootIndex == 65535
NameMax == 40
NameLenMask == 63
DirBit == 128
Bit6 == 64
HashStopLive == 45056
HashStopCon == 40960
StartC == 49152
StartD == 53248
StepSmall == 4096
StepLarge == 8192
Word16 == 65536

(***************************************************************************)
(* Bounds of the model.                                                    *)
(***************************************************************************)
ClusterMax == 28900
MaxRecords == 3
MaxHash == 6

VARIABLES
    pc, stack, err,
    \* get_cluster
    gc_arg, gc_startclust, gc_rst, gc_offset,
    \* write_common_part
    txtfile, png2stop, start, content_type, txt, pngs, firstclust, makedir,
    offset, hbuf, hi, numempty,
    \* fill_directory
    i, paths, oldpathind, cwd, dirs, files, cur, filelen, startclust,
    adstart, buf, reads, log,
    \* the container file
    fsize

gcVars == <<gc_arg, gc_startclust, gc_rst, gc_offset>>
wcVars == <<txtfile, png2stop, start, content_type, pngs, firstclust,
            makedir, offset, hbuf, hi, numempty>>
fdVars == <<i, paths, oldpathind, cwd, dirs, files, cur, filelen,
            startclust, adstart, buf, reads, log>>
vars == <<pc, stack, err, gcVars, wcVars, txt, fdVars, fsize>>

Min(a, b) == IF a < b THEN a ELSE b
Max(a, b) == IF a > b THEN a ELSE b
Last(s) == s[Len(s)]
Front(s) == SubSeq(s, 1, Len(s) - 1)

\* An uncaught exception: the interpreter unwinds every frame and exits.
Raise(e) == pc' = "error" /\ err' = e /\ stack' = <<>>

\* A return: to the caller's place, or to `done` when there is no caller.
Return(done) ==
    /\ pc' = IF stack = <<>> THEN done ELSE Last(stack)
    /\ stack' = IF stack = <<>> THEN stack ELSE Front(stack)
    /\ err' = err

(***************************************************************************)
(* get_cluster(startclust, offset), lines 235-243.                         *)
(***************************************************************************)
GcIdle ==
    /\ gc_arg = 0 /\ gc_startclust = 0 /\ gc_rst = 0 /\ gc_offset = 0

\* The call: the arguments are bound and rst = 0 (line 237).
GcCall(c, step) ==
    /\ gc_arg' = c
    /\ gc_startclust' = c
    /\ gc_rst' = 0
    /\ gc_offset' = step

GcWhileOff ==
    /\ pc = "gc_while"
    /\ IF gc_startclust > BandSize
       THEN /\ gc_startclust' = gc_startclust \div BandSize
            /\ gc_rst' = gc_rst + (gc_startclust' + 1) * gc_offset
            /\ UNCHANGED <<pc, stack, err>>
       ELSE /\ Return("gc_done")
            /\ UNCHANGED <<gc_startclust, gc_rst>>
    /\ UNCHANGED <<gc_arg, gc_offset, wcVars, txt, fdVars, fsize>>

GcWhileNoPlus ==
    /\ pc = "gc_while"
    /\ IF gc_startclust >= BandSize
       THEN /\ gc_startclust' = gc_startclust \div BandSize
            /\ gc_rst' = gc_rst + gc_startclust' * gc_offset
            /\ UNCHANGED <<pc, stack, err>>
       ELSE /\ Return("gc_done")
            /\ UNCHANGED <<gc_startclust, gc_rst>>
    /\ UNCHANGED <<gc_arg, gc_offset, wcVars, txt, fdVars, fsize>>

\* One test of the while condition (line 239): an iteration (lines 240-241)
\* or the return of rst (line 243).
GcWhile ==
    /\ pc = "gc_while"
    /\ IF gc_startclust >= BandSize
       THEN /\ gc_startclust' = gc_startclust \div BandSize
            /\ gc_rst' = gc_rst + (gc_startclust' + 1) * gc_offset
            /\ UNCHANGED <<pc, stack, err>>
       ELSE /\ Return("gc_done")
            /\ UNCHANGED <<gc_startclust, gc_rst>>
    /\ UNCHANGED <<gc_arg, gc_offset, wcVars, txt, fdVars, fsize>>


(***************************************************************************)
(* Helpers: bit masks, the container file, the file system.                *)
(***************************************************************************)
RECURSIVE BitAnd(_, _)
\* Python's a & b on non-negative integers.
BitAnd(a, b) ==
    IF a = 0 \/ b = 0 THEN 0
    ELSE (a % 2) * (b % 2) + 2 * BitAnd(a \div 2, b \div 2)

ReadSizeWhole(fl) == ClusterBytes

\* min(0x1000, filelen), line 333.
ReadSize(fl) == Min(ClusterBytes, fl)

\* infile.seek(at); infile.read(n): the bytes that exist, none past the end.
Got(at, n) == Max(0, Min(n, fsize - at))

\* buf += <n bytes of the container from offset at>; a bytes value is the
\* list of container extents it was read from, adjacent extents joined.
Extend(b, at, n) ==
    IF n = 0 THEN b
    ELSE IF b # <<>> /\ Last(b).at + Last(b).len = at
         THEN [b EXCEPT ![Len(b)].len = @ + n]
         ELSE Append(b, [at |-> at, len |-> n])

\* os.chdir("..") from d.
Up(d) == IF d # <<>> /\ Last(d) # ".." THEN Front(d) ELSE Append(d, "..")

RECURSIVE Ups(_, _)
\* for _ in range(n): os.chdir("..")
Ups(d, n) == IF n = 0 THEN d ELSE Ups(Up(d), n - 1)

\* The directories that exist: the output directory and those made in it.
IsDir(d) == d = <<>> \/ d \in dirs

\* The files that exist in the output directory: files is a set of
\* [path, data], one per path.
IsFile(f) == \E x \in files : x.path = f

WriteFileEmpty(f, b) ==
    {x \in files : x.path # f} \cup {[path |-> f, data |-> <<>>]}

\* outfile = open(f, "wb"); outfile.write(b); outfile.close()
WriteFile(f, b) ==
    {x \in files : x.path # f} \cup {[path |-> f, data |-> b]}

(***************************************************************************)
(* Directory records.  A record is the decoded 64 bytes: outname is the    *)
(* text outname[0:nlen].decode("utf-8") yields and utf8 tells whether that *)
(* decoding succeeds; the 24-bit fields are already combined (lines        *)
(* 276-278).                                                               *)
(***************************************************************************)
Rec(nm, u, nl, c1, c2, sc, pi, fl) ==
    [outname |-> nm, utf8 |-> u, namelen |-> nl, clustsize1 |-> c1,
     clustsize2 |-> c2, startclust |-> sc, pathind |-> pi, filelen |-> fl]

\* An unused entry (all bytes 0x00), or any entry with length byte 0.
EndRec(sc) == Rec("", TRUE, 0, 0, 0, sc, 0, 0)

NoRec == EndRec(0)

Names == {"a", "b"}

PathInds == {RootIndex} \cup (0 .. MaxRecords - 1)

\* Records for the directory tree: directories and small files anywhere.
TreeDirs ==
    {Rec(nm, TRUE, DirBit + 1, 0, 0, sc, pi, 0) :
        nm \in Names, sc \in {1}, pi \in PathInds}
    \cup {Rec("a", TRUE, DirBit + Bit6 + 1, 0, 0, 0, RootIndex, 0)}

TreeFiles ==
    {Rec(nm, TRUE, 1, 1, 1, 1, pi, 100) : nm \in Names, pi \in PathInds}

\* Records that break one or more of the validation rules.
BadRecs ==
    {Rec("a", u, DirBit, 0, 0, 1, 0, 0) : u \in BOOLEAN}
    \cup {Rec("a", TRUE, NameMax + 1, 1, 1, 1, 0, 100),
          Rec("a", TRUE, Bit6 + NameMax, 1, 2, 1, 0, 100),
          Rec("a", FALSE, 1, 1, 2, 1, 0, 100),
          Rec("a", TRUE, 1, 1, 1, 0, 0, 100),
          Rec("a", TRUE, DirBit + 1, 1, 2, 0, 0, 0),
          Rec("a", TRUE, 1, 1, 1, 1, 0, ClusterBytes + 1),
          Rec("a", TRUE, DirBit + 1, 0, 0, 1, 0, 1)}

\* A file name that is not valid UTF-8 on an otherwise valid record.
OddRecs == {Rec("a", FALSE, 1, 1, 1, 1, RootIndex, 100)}

TreeRecords == TreeDirs \cup TreeFiles \cup BadRecs \cup OddRecs

\* Records for the block reader: files in the root of every length class,
\* starting below, at and above a band boundary.
BlockStarts == {1, BandSize - 1, BandSize, 2 * BandSize}

BlockLens ==
    {0, 100, ClusterBytes, ClusterBytes + 100, 2 * ClusterBytes,
     2 * ClusterBytes + 1}

BlockRecords ==
    {Rec("a", TRUE, 1, 3, 3, sc, RootIndex, fl) :
        sc \in BlockStarts, fl \in BlockLens}

FileSizes == {MinSize, MinSize + ClusterBytes + 50, 1024 * ClusterBytes}

\* The record limit of the scan, line 268.
Limit == (ClusterBytes * firstclust) \div RecordBytes

\* Directory data long enough for the loop index of line 268 to reach the
\* key of the root (1024 clusters or more) is modelled with its first Base
\* entries all passed over at lines 284-287; shorter data has no such
\* entries.
Base == IF Limit > RootIndex THEN Limit - MaxRecords ELSE 0

\* An entry whose name length is out of range (bits 0-5 of the length byte
\* are zero, the byte is not).
SkipRec(sc) == Rec("", TRUE, Bit6, 0, 0, sc, 0, 0)

\* The records entry i of the directory data can hold.  firstclust is read
\* from bytes 0x2F-0x30 of the data (lines 416-417), which are the low 16
\* bits of the starting cluster of entry 0; the entries from Base +
\* MaxRecords on are unused.
RecordAt(R, k) ==
    IF k >= Base + MaxRecords THEN {EndRec(0)}
    ELSE IF k < Base
         THEN {SkipRec(IF k = 0 THEN firstclust ELSE 0)}
    ELSE IF k = 0
         THEN {r \in R : r.startclust % Word16 = firstclust}
              \cup {EndRec(firstclust)}
         ELSE R \cup {EndRec(0)}

\* Records for the last entries of long directory data: directories and
\* small files whose path index is the root or one of those entries.
LateInds == {RootIndex} \cup {k % Word16 : k \in Base .. Base + MaxRecords - 1}

LateDirs ==
    {Rec(nm, TRUE, DirBit + 1, 0, 0, 1, pi, 0) : nm \in Names, pi \in LateInds}

LateFiles ==
    {Rec(nm, TRUE, 1, 1, 1, 1, pi, 100) : nm \in Names, pi \in LateInds}

LateRecords ==
    LateDirs \cup LateFiles \cup {Rec("a", TRUE, 1, 1, 2, 1, RootIndex, 100)}

(***************************************************************************)
(* fill_directory, lines 247-345.                                          *)
(***************************************************************************)
FdIdle ==
    /\ i = 0 /\ paths = (RootIndex :> <<>>) /\ oldpathind = RootIndex
    /\ cur = NoRec /\ filelen = 0 /\ startclust = 0 /\ adstart = 0
    /\ buf = <<>> /\ reads = <<>> /\ log = <<>>

\* The entry of fill_directory: lines 264 and 266.
FdCall ==
    /\ i' = 0 /\ paths' = (RootIndex :> <<>>) /\ oldpathind' = RootIndex
    /\ UNCHANGED <<cur, filelen, startclust, adstart, buf, reads, log>>

\* What lines 270-309 do with a record: leave the loop, pass it over,
\* skip it, raise, or go on to create it.
Verdict(rec) ==
    LET nlen == BitAnd(rec.namelen, NameLenMask) IN
    IF rec.namelen = 0 THEN "break"
    ELSE IF ~makedir THEN "continue"
    ELSE IF nlen < 1 \/ nlen > NameMax THEN "skip_namelen"
    ELSE IF ~rec.utf8 THEN "UnicodeDecodeError"
    ELSE IF rec.clustsize1 # rec.clustsize2 THEN "skip_clustsize"
    ELSE IF rec.startclust < 1 /\ BitAnd(rec.namelen, DirBit) = 0
         THEN "skip_startclust"
    ELSE IF rec.filelen > ClusterBytes * rec.clustsize1
         THEN "skip_filelen"
    ELSE "create"

IsSkip(v) ==
    v \in {"skip_namelen", "skip_clustsize", "skip_startclust",
           "skip_filelen"}

\* The lines written to the text file for a record, lines 290-297.
TxtRecord(rec) ==
    <<IF BitAnd(rec.namelen, DirBit) = DirBit THEN "Directory" ELSE "File",
      <<"name:", rec.outname>> >>
    \o (IF BitAnd(rec.namelen, Bit6) = Bit6
        THEN <<"Bit 6 of namelen is set.">> ELSE <<>>)

LookupOrRoot(p) ==
    [ok |-> TRUE, path |-> IF p \in DOMAIN paths THEN paths[p] ELSE <<>>]

\* paths[p], lines 315 and 319: a key that is not in the dictionary raises
\* KeyError.
Lookup(p) ==
    IF p \in DOMAIN paths THEN [ok |-> TRUE, path |-> paths[p]]
    ELSE [ok |-> FALSE, path |-> <<>>]

\* Lines 311-316 for a record about to be created: where the working
\* directory is afterwards and the exception raised, if any.  os.chdir
\* raises FileNotFoundError for the empty path and for a path that is no
\* directory.
ChdirUp(rec) ==
    IF rec.pathind # oldpathind THEN Ups(cwd, Len(paths[oldpathind])) ELSE cwd

ChdirErr(rec) ==
    IF rec.pathind = oldpathind THEN "none"
    ELSE IF ~Lookup(rec.pathind).ok THEN "KeyError"
    ELSE IF Lookup(rec.pathind).path = <<>> THEN "FileNotFoundError"
    ELSE IF ~IsDir(ChdirUp(rec) \o Lookup(rec.pathind).path)
         THEN "FileNotFoundError"
    ELSE "none"

ChdirTo(rec) ==
    IF rec.pathind # oldpathind /\ ChdirErr(rec) = "none"
    THEN ChdirUp(rec) \o Lookup(rec.pathind).path
    ELSE ChdirUp(rec)

\* do_mkdir(outname) in directory d, lines 64-76: os.mkdir, every OSError
\* swallowed (an existing file or directory of that name stays as it is).
Mkdir(d, nm) ==
    IF IsDir(Append(d, nm)) \/ IsFile(Append(d, nm))
    THEN dirs
    ELSE dirs \cup {Append(d, nm)}

\* One entry of the scan log: the record, what became of it, and the
\* working directory when it was handled.
Entry(rec, out, at) == [rec |-> rec, out |-> out, at |-> at]

\* The body of the for loop for one record up to the block-reading loop,
\* lines 269-327 (and line 341 for a directory).
ForBody(rec) ==
    LET v == Verdict(rec)
        isdir == BitAnd(rec.namelen, DirBit) = DirBit
        e == ChdirErr(rec)
        d == ChdirTo(rec)
        decoded == v \in {"skip_clustsize", "skip_startclust",
                          "skip_filelen", "create"}
    IN
    /\ cur' = rec
    /\ txt' = IF txtfile /\ decoded
              THEN txt \o TxtRecord(rec)
                   \o (IF v = "create" /\ e = "none" /\ ~isdir
                       THEN <<<<"Starting: advertized",
                               rec.startclust * ClusterBytes + start>> >>
                       ELSE <<>>)
              ELSE txt
    /\ CASE v = "break" ->
              /\ pc' = "fd_pop"
              /\ UNCHANGED <<stack, err, i, paths, oldpathind, cwd, dirs,
                             files, filelen, startclust, adstart, buf,
                             reads, log>>
         [] v = "continue" \/ IsSkip(v) ->
              /\ i' = i + 1
              /\ log' = Append(log, Entry(rec, v, cwd))
              /\ UNCHANGED <<pc, stack, err, paths, oldpathind, cwd, dirs,
                             files, filelen, startclust, adstart, buf,
                             reads>>
         [] v = "UnicodeDecodeError" ->
              /\ Raise(v)
              /\ log' = Append(log, Entry(rec, v, cwd))
              /\ UNCHANGED <<i, paths, oldpathind, cwd, dirs, files,
                             filelen, startclust, adstart, buf, reads>>
         [] v = "create" /\ e # "none" ->
              /\ Raise(e)
              /\ cwd' = d
              /\ log' = Append(log, Entry(rec, e, d))
              /\ UNCHANGED <<i, paths, oldpathind, dirs, files, filelen,
                             startclust, adstart, buf, reads>>
         [] v = "create" /\ e = "none" /\ isdir ->
              /\ cwd' = d
              /\ oldpathind' = rec.pathind
              /\ paths' = [k \in DOMAIN paths \cup {i} |->
                             IF k = i
                             THEN Append(Lookup(rec.pathind).path,
                                         rec.outname)
                             ELSE paths[k]]
              /\ dirs' = Mkdir(d, rec.outname)
              /\ i' = i + 1
              /\ log' = Append(log, Entry(rec, "dir", d))
              /\ UNCHANGED <<pc, stack, err, files, filelen, startclust,
                             adstart, buf, reads>>
         [] v = "create" /\ e = "none" /\ ~isdir ->
              /\ cwd' = d
              /\ oldpathind' = rec.pathind
              /\ adstart' = rec.startclust * ClusterBytes + start
              /\ startclust' = rec.startclust
              /\ filelen' = rec.filelen
              /\ buf' = <<>>
              /\ reads' = <<>>
              /\ pc' = "fd_while"
              /\ UNCHANGED <<stack, err, i, paths, dirs, files, log>>

\* The head of the for loop, line 268, over directory data whose entries
\* are drawn from R.
ForRecord(R) ==
    /\ pc = "fd_for"
    /\ IF i >= Limit
       THEN /\ pc' = "fd_pop"
            /\ UNCHANGED <<stack, err, txt, fdVars>>
       ELSE \E rec \in RecordAt(R, i) : ForBody(rec)
    /\ UNCHANGED <<gcVars, wcVars, fsize>>

\* The test of the block-reading loop, line 330: the call of get_cluster
\* of line 331, or lines 337-341 once the length is used up.
BlockWhile ==
    /\ pc = "fd_while"
    /\ IF filelen > 0
       THEN /\ GcCall(startclust, offset)
            /\ pc' = "gc_while"
            /\ stack' = Append(stack, "fd_read")
            /\ UNCHANGED <<err, fdVars>>
       ELSE /\ IF IsDir(Append(cwd, cur.outname))
               THEN /\ Raise("IsADirectoryError")
                    /\ log' = Append(log, Entry(cur, "IsADirectoryError", cwd))
                    /\ UNCHANGED <<i, files>>
               ELSE /\ files' = WriteFile(Append(cwd, cur.outname), buf)
                    /\ i' = i + 1
                    /\ log' = Append(log, Entry(cur, "file", cwd))
                    /\ pc' = "fd_for"
                    /\ UNCHANGED <<stack, err>>
            /\ UNCHANGED <<gcVars, paths, oldpathind, cwd, dirs, cur,
                           filelen, startclust, adstart, buf, reads>>
    /\ UNCHANGED <<wcVars, txt, fsize>>

\* The rest of one iteration of the block-reading loop, lines 331-336,
\* once get_cluster has returned rst.
BlockRead ==
    /\ pc = "fd_read"
    /\ LET realstart == adstart + gc_rst
           want == ReadSize(filelen)
       IN /\ buf' = Extend(buf, realstart, Got(realstart, want))
          /\ reads' = Append(reads, [at |-> realstart, size |-> want])
    /\ startclust' = startclust + 1
    /\ adstart' = adstart + ClusterBytes
    /\ filelen' = filelen - ClusterBytes
    /\ pc' = "fd_while"
    /\ UNCHANGED <<stack, err, gcVars, wcVars, txt, fsize, i, paths,
                   oldpathind, cwd, dirs, files, cur, log>>

\* "pop directory", lines 343-345, and the return.
PopDirectory ==
    /\ pc = "fd_pop"
    /\ cwd' = Ups(cwd, Len(paths[oldpathind]))
    /\ Return("fd_done")
    /\ UNCHANGED <<gcVars, wcVars, txt, fsize, i, paths, oldpathind, dirs,
                   files, cur, filelen, startclust, adstart, buf, reads, log>>

(***************************************************************************)
(* check_sha1, lines 203-231.  same tells whether the digest computed over *)
(* [start, end) equals the stored one (line 219).  On a mismatch the loop  *)
(* of lines 223-229 applies ord() to an element of a bytes value, an int,  *)
(* which raises TypeError.                                                 *)
(***************************************************************************)
check_sha1(same) == IF same THEN "ok" ELSE "TypeError"

(***************************************************************************)
(* The content-type chain of write_common_part, lines 371-394.             *)
(***************************************************************************)
ContentLabelSwapped(ct) ==
    IF ct = 0 THEN "(no type)"
    ELSE IF BitAnd(ct, 1) # 0 THEN "Game save"
    ELSE IF BitAnd(ct, 2) # 0 THEN "Game add-on"
    ELSE IF BitAnd(ct, 589824) # 0 THEN "Video clip"
    ELSE IF BitAnd(ct, 196608) # 0 THEN "Theme"
    ELSE IF BitAnd(ct, 786432) # 0 THEN "Game trailer"
    ELSE IF BitAnd(ct, 851968) # 0 THEN "XBox Live Arcade"
    ELSE IF BitAnd(ct, 65536) # 0 THEN "Gamer profile"
    ELSE IF BitAnd(ct, 131072) # 0 THEN "Gamer picture"
    ELSE IF BitAnd(ct, 262144) # 0 THEN "System update"
    ELSE IF BitAnd(ct, 524288) # 0 THEN "Full game demo"
    ELSE "(unknown)"

ContentLabelNarrow(ct) ==
    IF ct = 0 THEN "(no type)"
    ELSE IF BitAnd(ct, 1) # 0 THEN "Game save"
    ELSE IF BitAnd(ct, 2) # 0 THEN "Game add-on"
    ELSE IF BitAnd(ct, 196608) # 0 THEN "Theme"
    ELSE IF BitAnd(ct, 589824) # 0 THEN "Video clip"
    ELSE IF BitAnd(ct, 524288) # 0 THEN "Game trailer"
    ELSE IF BitAnd(ct, 851968) # 0 THEN "XBox Live Arcade"
    ELSE IF BitAnd(ct, 65536) # 0 THEN "Gamer profile"
    ELSE IF BitAnd(ct, 131072) # 0 THEN "Gamer picture"
    ELSE IF BitAnd(ct, 262144) # 0 THEN "System update"
    ELSE IF BitAnd(ct, 524288) # 0 THEN "Full game demo"
    ELSE "(unknown)"

ContentLabel(ct) ==
    IF ct = 0 THEN "(no type)"
    ELSE IF BitAnd(ct, 1) # 0 THEN "Game save"
    ELSE IF BitAnd(ct, 2) # 0 THEN "Game add-on"
    ELSE IF BitAnd(ct, 196608) # 0 THEN "Theme"
    ELSE IF BitAnd(ct, 589824) # 0 THEN "Video clip"
    ELSE IF BitAnd(ct, 786432) # 0 THEN "Game trailer"
    ELSE IF BitAnd(ct, 851968) # 0 THEN "XBox Live Arcade"
    ELSE IF BitAnd(ct, 65536) # 0 THEN "Gamer profile"
    ELSE IF BitAnd(ct, 131072) # 0 THEN "Gamer picture"
    ELSE IF BitAnd(ct, 262144) # 0 THEN "System update"
    ELSE IF BitAnd(ct, 524288) # 0 THEN "Full game demo"
    ELSE "(unknown)"

\* Content types: every combination of the bits the chain looks at and of
\* one bit it does not look at.
TypeBits == {1, 2, 65536, 131072, 262144, 524288, 16}

RECURSIVE SumOf(_)
SumOf(S) == IF S = {} THEN 0
            ELSE LET x == CHOOSE y \in S : TRUE IN x + SumOf(S \ {x})

ContentTypes == {SumOf(B) : B \in SUBSET TypeBits}

FewTypes == {0, 1, 720896}

(***************************************************************************)
(* dump_png, lines 126-146: whether the PNG file is written.  allow is the *)
(* answer of nice_open_file.                                               *)
(***************************************************************************)
dump_png(pnglen, maxlen, allow) == pnglen <= maxlen /\ allow

Png1Max == 16384
Png2At == 22298

\* The (png2stop, start) pairs of handle_live_pirs and handle_con.
Variants ==
    {<<HashStopLive, StartC>>, <<HashStopLive, StartD>>,
     <<HashStopCon, StartC>>}

(***************************************************************************)
(* write_common_part, lines 349-459.                                       *)
(***************************************************************************)
WcIdle ==
    /\ content_type = 0 /\ pngs = {} /\ firstclust = 0 /\ makedir = FALSE
    /\ offset = 0 /\ hbuf = <<>> /\ hi = 0 /\ numempty = 0

Say(lines) == txt' = IF txtfile THEN txt \o lines ELSE txt

\* Lines 359-366: the stored hash, the entry id and the content type are
\* read; the hash is checked only for the text file.  T: the content types.
MasterHash(T) ==
    /\ pc = "wc_sha"
    /\ \E ct \in T, same \in BOOLEAN :
         /\ content_type' = ct
         /\ IF txtfile /\ check_sha1(same) # "ok"
            THEN /\ Raise(check_sha1(same))
                 /\ txt' = txt
            ELSE /\ pc' = "wc_type"
                 /\ Say(<<<<"Master SHA1 hash", check_sha1(same)>> >>)
                 /\ UNCHANGED <<stack, err>>
    /\ UNCHANGED <<gcVars, txtfile, png2stop, start, pngs, firstclust,
                   makedir, offset, hbuf, hi, numempty, fdVars, fsize>>

\* Lines 367-394.
WriteContentType ==
    /\ pc = "wc_type"
    /\ Say(<<<<"Content type", ContentLabel(content_type)>> >>)
    /\ pc' = "wc_meta"
    /\ UNCHANGED <<stack, err, gcVars, wcVars, fdVars, fsize>>

\* Lines 396-401: titles, descriptions, publisher and file name; decode
\* raises UnicodeDecodeError on a slot that is not UTF-8.
Metadata ==
    /\ pc = "wc_meta"
    /\ \E utf8 \in BOOLEAN :
         IF txtfile /\ ~utf8
         THEN /\ Raise("UnicodeDecodeError")
              /\ txt' = txt
         ELSE /\ pc' = "wc_png"
              /\ Say(<<<<"Directory data at", start>>, <<"Titles">>,
                       <<"Descriptions">>, <<"Publisher">>, <<"Filename">> >>)
              /\ UNCHANGED <<stack, err>>
    /\ UNCHANGED <<gcVars, wcVars, fdVars, fsize>>

\* Lines 402-412: the icon header and the two icons.
Icons ==
    /\ pc = "wc_png"
    /\ \E png1len \in {0, Png1Max, Png1Max + 1},
          png2len \in {0, png2stop - Png2At, png2stop - Png2At + 1},
          allow1 \in BOOLEAN, allow2 \in BOOLEAN :
         pngs' = (IF png1len > 0 /\ dump_png(png1len, Png1Max, allow1)
                  THEN {"1"} ELSE {})
                 \cup (IF png2len > 0
                          /\ dump_png(png2len, png2stop - Png2At, allow2)
                       THEN {"2"} ELSE {})
    /\ Say(<<<<"Value">> >>)
    /\ pc' = "wc_dir"
    /\ UNCHANGED <<stack, err, gcVars, txtfile, png2stop, start,
                   content_type, firstclust, makedir, offset, hbuf, hi,
                   numempty, fdVars, fsize>>

\* Lines 416-432: the directory data are read, the output directory is
\* opened (allow is the answer of nice_open_dir) and fill_directory called.
Directory ==
    /\ pc = "wc_dir"
    /\ \E fc \in {0, 1}, allow \in BOOLEAN :
         /\ firstclust' = fc
         /\ makedir' = allow
         /\ cwd' = IF allow THEN <<>> ELSE cwd
    /\ offset' = IF png2stop = HashStopLive /\ start = StartC
                 THEN StepSmall ELSE StepLarge
    /\ FdCall
    /\ pc' = "fd_for"
    /\ stack' = Append(stack, "wc_hash")
    /\ UNCHANGED <<err, gcVars, txtfile, png2stop, start, content_type,
                   pngs, hbuf, hi, numempty, txt, dirs, files, fsize>>

\* The tables of n 24-byte records; an entry is 0 when its 24 bytes are
\* zero and 1 when it is populated.
Tables(n) == [1 .. n -> {0, 1}]

\* Lines 434-439: the hash table is read, for the text file only.
HashTable ==
    /\ pc = "wc_hash"
    /\ IF txtfile
       THEN /\ \E n \in 1 .. MaxHash : hbuf' \in Tables(n)
            /\ hi' = 0
            /\ numempty' = 0
            /\ pc' = "wc_scan"
            /\ UNCHANGED <<stack, err>>
       ELSE /\ Return("wc_done")
            /\ UNCHANGED <<hbuf, hi, numempty>>
    /\ UNCHANGED <<gcVars, txtfile, png2stop, start, content_type, pngs,
                   firstclust, makedir, offset, txt, fdVars, fsize>>

\* One record of the table, lines 440-452, or lines 454-459 after the
\* last.  Line 444 calls txtfile.write with two arguments, which raises
\* TypeError.
HashRecord ==
    /\ pc = "wc_scan"
    /\ IF hi >= Len(hbuf)
       THEN /\ txt' = txt \o <<<<"Trailing data">> >>
            /\ Return("wc_done")
            /\ UNCHANGED <<hi, numempty>>
       ELSE IF hbuf[hi + 1] # 0
            THEN IF numempty > 0
                 THEN /\ Raise("TypeError")
                      /\ UNCHANGED <<txt, hi, numempty>>
                 ELSE /\ txt' = txt \o <<<<"Hash", hi>> >>
                      /\ hi' = hi + 1
                      /\ UNCHANGED <<pc, stack, err, numempty>>
            ELSE /\ numempty' = numempty + 1
                 /\ hi' = hi + 1
                 /\ UNCHANGED <<pc, stack, err, txt>>
    /\ UNCHANGED <<gcVars, txtfile, png2stop, start, content_type, pngs,
                   firstclust, makedir, offset, hbuf, fdVars, fsize>>

(***************************************************************************)
(* The specifications.                                                     *)
(***************************************************************************)
\* The step of a variant, lines 428-431.
StepOf(v) == IF v[1] = HashStopLive /\ v[2] = StartC THEN StepSmall ELSE StepLarge

\* The output: nothing written yet, the program in its start directory.
Fresh ==
    /\ txt = <<>> /\ cwd = <<"..">> /\ dirs = {} /\ files = {}

\* get_cluster alone, on every cluster up to ClusterMax and both steps.
InitCluster ==
    /\ pc = "gc_while" /\ stack = <<>> /\ err = ""
    /\ gc_arg \in 0 .. ClusterMax
    /\ gc_startclust = gc_arg
    /\ gc_rst = 0
    /\ gc_offset \in {StepSmall, StepLarge}
    /\ txtfile = FALSE /\ png2stop = HashStopCon /\ start = StartC
    /\ WcIdle /\ FdIdle /\ Fresh /\ fsize = MinSize

NextCluster == GcWhile

SpecCluster ==
    InitCluster /\ [][NextCluster]_vars /\ WF_vars(NextCluster)

\* The content-type chain alone: write_common_part at line 367 with the
\* text file open, on every content type of ContentTypes.
InitType ==
    /\ pc = "wc_type" /\ stack = <<>> /\ err = ""
    /\ GcIdle
    /\ txtfile = TRUE /\ png2stop = HashStopCon /\ start = StartC
    /\ content_type \in ContentTypes
    /\ pngs = {} /\ firstclust = 0 /\ makedir = FALSE
    /\ offset = 0 /\ hbuf = <<>> /\ hi = 0 /\ numempty = 0
    /\ FdIdle
    /\ txt = <<<<"Master SHA1 hash", "ok">> >>
    /\ cwd = <<"..">> /\ dirs = {} /\ files = {}
    /\ fsize = MinSize

NextType == WriteContentType

SpecType == InitType /\ [][NextType]_vars

\* fill_directory as write_common_part calls it at line 432, in a new
\* output directory.
InitFill(TF, V, MK, FS) ==
    /\ pc = "fd_for" /\ stack = <<>> /\ err = ""
    /\ GcIdle
    /\ txtfile \in TF
    /\ \E v \in V : png2stop = v[1] /\ start = v[2]
    /\ offset = StepOf(<<png2stop, start>>)
    /\ content_type = 0 /\ pngs = {}
    /\ firstclust \in {0, 1}
    /\ makedir \in MK
    /\ hbuf = <<>> /\ hi = 0 /\ numempty = 0
    /\ FdIdle
    /\ txt = <<>>
    /\ cwd = IF makedir THEN <<>> ELSE <<"..">>
    /\ dirs = {} /\ files = {}
    /\ fsize \in FS

InitTree ==
    InitFill(BOOLEAN, {<<HashStopCon, StartC>>}, BOOLEAN, {1024 * ClusterBytes})

NextTree ==
    \/ ForRecord(TreeRecords)
    \/ BlockWhile
    \/ GcWhile
    \/ BlockRead
    \/ PopDirectory

SpecTree == InitTree /\ [][NextTree]_vars

InitBlocks == InitFill({FALSE}, Variants, {TRUE}, FileSizes)

NextBlocks ==
    \/ ForRecord(BlockRecords)
    \/ BlockWhile
    \/ GcWhile
    \/ BlockRead
    \/ PopDirectory

SpecBlocks == InitBlocks /\ [][NextBlocks]_vars

\* fill_directory on directory data of 1024 clusters, the shortest whose
\* record limit exceeds the key of the root, when the loop of line 268
\* arrives at entry Base: the entries before it were passed over for their
\* name length, so nothing has been written or created and the scan log,
\* which here holds the records handled from entry Base on, is empty.
InitLate ==
    /\ pc = "fd_for" /\ stack = <<>> /\ err = ""
    /\ GcIdle
    /\ txtfile \in BOOLEAN
    /\ png2stop = HashStopCon /\ start = StartC
    /\ offset = StepOf(<<png2stop, start>>)
    /\ content_type = 0 /\ pngs = {}
    /\ firstclust = (Word16 * RecordBytes) \div ClusterBytes
    /\ makedir = TRUE
    /\ hbuf = <<>> /\ hi = 0 /\ numempty = 0
    /\ i = Base /\ paths = (RootIndex :> <<>>) /\ oldpathind = RootIndex
    /\ cur = SkipRec(0) /\ filelen = 0 /\ startclust = 0 /\ adstart = 0
    /\ buf = <<>> /\ reads = <<>> /\ log = <<>>
    /\ txt = <<>>
    /\ cwd = <<>> /\ dirs = {} /\ files = {}
    /\ fsize = start + 2 * firstclust * ClusterBytes

NextLate ==
    \/ ForRecord(LateRecords)
    \/ BlockWhile
    \/ GcWhile
    \/ BlockRead
    \/ PopDirectory

SpecLate == InitLate /\ [][NextLate]_vars

\* write_common_part from its first line.
FewRecords ==
    {Rec("a", TRUE, 1, 1, 1, 1, RootIndex, 100),
     Rec("b", TRUE, DirBit + 1, 0, 0, 1, RootIndex, 0)}

InitCommon ==
    /\ pc = "wc_sha" /\ stack = <<>> /\ err = ""
    /\ GcIdle
    /\ txtfile \in BOOLEAN
    /\ \E v \in Variants : png2stop = v[1] /\ start = v[2]
    /\ WcIdle /\ FdIdle /\ Fresh
    /\ fsize = 1024 * ClusterBytes

NextCommon ==
    \/ MasterHash(FewTypes)
    \/ WriteContentType
    \/ Metadata
    \/ Icons
    \/ Directory
    \/ ForRecord(FewRecords)
    \/ BlockWhile
    \/ GcWhile
    \/ BlockRead
    \/ PopDirectory
    \/ HashTable
    \/ HashRecord

SpecCommon == InitCommon /\ [][NextCommon]_vars

(***************************************************************************)
(* The claims.                                                             *)
(***************************************************************************)
\* The correction in closed form for the clusters below 170 * 170.
Correction(c, step) == IF c < 170 THEN 0 ELSE (c \div 170 + 1) * step

\* C1: get_cluster(c, step) returns 0 for 0 <= c < 170 and
\* (c div 170 + 1) * step for 170 <= c < 28900, for both block steps, and
\* its loop always terminates.
C1_GetCluster ==
    /\ [](pc = "gc_done" /\ gc_arg < 28900
            => gc_rst = Correction(gc_arg, gc_offset))
    /\ <>(pc = "gc_done")

C1_Witness ==
    /\ pc = "gc_done" /\ gc_arg = 170 /\ gc_offset = StepLarge
    /\ gc_rst = 2 * StepLarge

\* C2 as stated: the correction of cluster 340 is twice the block step.
C2_Original == pc = "gc_done" /\ gc_arg = 340 => gc_rst = 2 * gc_offset

\* C2, amended: the correction of cluster 340 is three times the block
\* step (340 div 170 = 2, and 2 + 1 steps are added), for both block steps.
C2_Cluster340 == pc = "gc_done" /\ gc_arg = 340 => gc_rst = 3 * gc_offset

C2_Witness ==
    /\ pc = "gc_done" /\ gc_arg = 340 /\ gc_startclust = 2
    /\ gc_offset = StepSmall /\ gc_rst = 12288

\* The content-type tests in the order of the claim.
Tests ==
    <<<<1, "Game save">>, <<2, "Game add-on">>, <<196608, "Theme">>,
      <<589824, "Video clip">>, <<786432, "Game trailer">>,
      <<851968, "XBox Live Arcade">>, <<65536, "Gamer profile">>,
      <<131072, "Gamer picture">>, <<262144, "System update">>,
      <<524288, "Full game demo">> >>

Matching(ct) == {k \in 1 .. Len(Tests) : BitAnd(ct, Tests[k][1]) # 0}

FirstMatch(ct) ==
    IF ct = 0 THEN "(no type)"
    ELSE IF Matching(ct) = {} THEN "(unknown)"
    ELSE Tests[CHOOSE k \in Matching(ct) :
                 \A m \in Matching(ct) : k <= m][2]

TypeLines == SelectSeq(txt, LAMBDA l : l[1] = "Content type")

\* C4: the content-type chain writes exactly one label, the label of the
\* first test of the fixed order whose mask has a non-zero AND with the
\* value ("(no type)" for 0, "(unknown)" when no test matches), and
\* 0x000B0000 is labelled "Theme".
C4_FirstMatchWins ==
    pc = "wc_meta" =>
        /\ Len(TypeLines) = 1
        /\ TypeLines[1][2] = FirstMatch(content_type)
        /\ (content_type = 720896 => TypeLines[1][2] = "Theme")

C4_Witness ==
    /\ pc = "wc_meta" /\ content_type = 720896
    /\ Last(txt) = <<"Content type", "Theme">>

\* The file record whose blocks have just been read and written: the scan
\* is back at the head of its loop and the last log entry is a file.
JustWritten == pc = "fd_for" /\ log # <<>> /\ Last(log).out = "file"

\* The reads the claim expects for a file record.
ExpectedReads(rec) ==
    LET k == rec.filelen \div 4096
        r == rec.filelen % 4096
        n == IF r = 0 THEN k ELSE k + 1
    IN [j \in 1 .. n |->
          [at |-> (rec.startclust + j - 1) * 4096 + start
                    + Correction(rec.startclust + j - 1, offset),
           size |-> IF j <= k THEN 4096 ELSE r]]

\* C3: for a validated file record of length 4096*k (k >= 1) the block
\* loop issues exactly k reads of 4096 bytes, and for 4096*k + r
\* (0 < r < 4096) exactly k + 1 reads, the last of r bytes; read j is
\* requested at (startCluster + j)*4096 + directoryStart +
\* get_cluster(startCluster + j, blockStep); the loop runs only while the
\* remaining length is positive and has stopped when it is <= 0.
C3_BlockReads ==
    /\ pc = "fd_read" => filelen > 0
    /\ JustWritten =>
          /\ reads = ExpectedReads(Last(log).rec)
          /\ filelen <= 0
          /\ filelen = Last(log).rec.filelen - 4096 * Len(reads)

C3_Witness ==
    /\ JustWritten
    /\ Last(log).rec.filelen = 4096 + 100
    /\ Last(log).rec.startclust = 169
    /\ offset = StepLarge
    /\ reads = <<[at |-> 169 * 4096 + start, size |-> 4096],
                 [at |-> 170 * 4096 + start + 2 * StepLarge, size |-> 100]>>

\* The number of bytes of a bytes value.
RECURSIVE BytesIn(_)
BytesIn(b) == IF b = <<>> THEN 0 ELSE Last(b).len + BytesIn(Front(b))

\* The bytes the container holds of a read of n bytes at offset at.
Held(at, n) ==
    IF at >= fsize THEN 0 ELSE IF at + n > fsize THEN fsize - at ELSE n

RECURSIVE HeldOf(_)
HeldOf(rs) ==
    IF rs = <<>> THEN 0
    ELSE Held(Last(rs).at, Last(rs).size) + HeldOf(Front(rs))

\* C8 as stated: a file record whose reads come back short is not written.
C8_Original ==
    JustWritten => BytesIn(buf) = Last(log).rec.filelen

\* C8, amended: a read that returns fewer bytes than requested is not
\* detected and nothing is reported or raised: the output file is written
\* with the bytes the reads did return, short as they are, and the scan
\* goes on with the next record.
C8_ShortReadWritten ==
    /\ pc # "error"
    /\ JustWritten =>
          /\ [path |-> Append(cwd, Last(log).rec.outname), data |-> buf]
                \in files
          /\ BytesIn(buf) = HeldOf(reads)
          /\ i = Len(log)

C8_Witness ==
    /\ JustWritten
    /\ Len(log) = 2
    /\ log[1].out = "file" /\ log[1].rec.filelen = 100
    /\ fsize = MinSize
    /\ Last(log).rec.filelen = 2 * ClusterBytes
    /\ Last(log).rec.outname = "a"
    /\ files = {[path |-> <<"a">>, data |-> <<>>]}

\* A directory-type record: bit 7 of the name-length byte.
IsDirRec(rec) == (rec.namelen \div 128) % 2 = 1

\* The validation rules as the claims state them.
Violates(rec) ==
    \/ rec.namelen % 64 < 1
    \/ rec.namelen % 64 > 40
    \/ rec.clustsize1 # rec.clustsize2
    \/ (rec.startclust < 1 /\ ~IsDirRec(rec))
    \/ rec.filelen > 4096 * rec.clustsize1

\* Log entry j belongs to the record of index j - 1.  The record is valid,
\* its name is text, and its path index is the root's or the index of an
\* earlier directory record.
WellFormed(j) ==
    LET r == log[j].rec IN
    /\ ~Violates(r)
    /\ r.utf8
    /\ \/ r.pathind = RootIndex
       \/ \E m \in 1 .. j - 1 : m - 1 = r.pathind /\ IsDirRec(log[m].rec)

\* No two records put the same name into the same directory.
NoClash ==
    \A j, m \in 1 .. Len(log) :
        j < m => ~(/\ log[j].rec.pathind = log[m].rec.pathind
                   /\ log[j].rec.outname = log[m].rec.outname)

\* The bytes of a file record when the container holds them all.
WholeData(rec) ==
    IF rec.filelen = 0 THEN <<>>
    ELSE <<[at |-> rec.startclust * 4096 + start
                     + Correction(rec.startclust, offset),
            len |-> rec.filelen]>>

\* C5 as stated: for valid records whose path index is 0xFFFF or that of
\* an earlier directory record, in any order of path indices, the scan
\* does not abort, every file record is written at
\* PathTable[pathIndex] + name with its bytes and every directory record is
\* created at PathTable[pathIndex] + name.
C5_Original ==
    (makedir /\ NoClash /\ \A j \in 1 .. Len(log) : WellFormed(j)) =>
        /\ pc # "error"
        /\ \A j \in 1 .. Len(log) :
              LET r == log[j].rec
                  target == Append(paths[r.pathind], r.outname)
              IN IF IsDirRec(r) THEN target \in dirs
                 ELSE [path |-> target, data |-> WholeData(r)] \in files

\* C9 as stated: a record that violates a validation rule is skipped
\* (nothing created, PathTable, working directory and previous path index
\* unchanged) and the scan continues with the next record; a record that
\* violates none is never skipped.
C9_Original ==
    [][(makedir /\ Len(log') = Len(log) + 1) =>
          LET e == Last(log') IN
          /\ Violates(e.rec) =>
                /\ IsSkip(e.out)
                /\ pc' = "fd_for" /\ i' = i + 1
                /\ UNCHANGED <<dirs, files, paths, cwd, oldpathind>>
          /\ ~Violates(e.rec) => ~IsSkip(e.out)]_vars

\* The path indices no directory record handled so far has registered.
Unregistered(p) ==
    /\ p # RootIndex
    /\ \A m \in 1 .. Len(log) : ~(log[m].out = "dir" /\ m - 1 = p)

\* C10: a record whose path index is not 0xFFFF and was not registered by
\* an earlier directory record creates no file and no directory; when it
\* passes validation the lookup of its path index raises KeyError, and it
\* is not written under the root or anywhere else.
C10_UnregisteredFails ==
    [][(makedir /\ Len(log') = Len(log) + 1
          /\ Unregistered(Last(log').rec.pathind)) =>
          LET e == Last(log') IN
          /\ UNCHANGED <<dirs, files, paths>>
          /\ e.out \notin {"file", "dir"}
          /\ (~Violates(e.rec) /\ e.rec.utf8) =>
                pc' = "error" /\ err' = "KeyError" /\ e.out = "KeyError"]_vars

C10_Witness ==
    /\ pc = "error" /\ err = "KeyError"
    /\ Len(log) = 3
    /\ log[1].out = "dir" /\ log[2].out = "file"
    /\ ~IsDirRec(log[3].rec) /\ log[3].rec.pathind = 1
    /\ dirs = {<<"a">>}
    /\ Cardinality(files) = 1

\* The report the claim expects of a hash table: one entry per populated
\* record and one count per maximal run of empty records, in table order.
\* run is the length of the run of empty records that ends before entry k.
RECURSIVE Coalesce(_, _, _)
Coalesce(t, k, run) ==
    IF k > Len(t)
    THEN IF run > 0 THEN <<<<"Empty entries", run>> >> ELSE <<>>
    ELSE IF t[k] = 0 THEN Coalesce(t, k + 1, run + 1)
    ELSE (IF run > 0 THEN <<<<"Empty entries", run>> >> ELSE <<>>)
         \o <<<<"Hash", k - 1>> >> \o Coalesce(t, k + 1, 0)

\* The entries of the text file that report the hash table.
HashLines ==
    SelectSeq(txt, LAMBDA l : l[1] \in {"Hash", "Empty entries"})

\* C6 as stated: once the scan of the hash table has ended, the text file
\* holds, in table order, one entry per populated record and one count per
\* maximal run of empty records, a run that ends the table included.
C6_Original ==
    (hbuf # <<>> /\ pc \in {"wc_done", "error"}) =>
        HashLines = Coalesce(hbuf, 1, 0)

\* C7 as stated: with the text file being written, the master hash step
\* yields a report line, "ok" or "wrong", and write_common_part goes on
\* to the content type and the remaining phases whether or not the stored
\* digest equals the computed one.
C7_Original ==
    [][(pc = "wc_sha" /\ txtfile) =>
          /\ pc' = "wc_type"
          /\ Len(txt') = Len(txt) + 1
          /\ Last(txt')[1] = "Master SHA1 hash"]_vars

\* The five later tests of the chain and the five tests before them.
LaterTests == {6, 7, 8, 9, 10}

EarlierTests == {1, 2, 3, 4, 5}

\* C12: the branches for mask 0x000D0000 and for the bits 0x00010000,
\* 0x00020000, 0x00040000 and 0x00080000 are never taken: whenever one of
\* these masks matches the content type, one of the tests before them
\* (0x1, 0x2, 0x00030000, 0x00090000, 0x000C0000) matches too, and none of
\* the five labels is written.
C12_LaterBranchesDead ==
    pc = "wc_meta" =>
        /\ (Matching(content_type) \cap LaterTests # {}
              => Matching(content_type) \cap EarlierTests # {})
        /\ \A k \in 1 .. Len(txt) :
              txt[k][1] = "Content type" =>
                 /\ \A t \in LaterTests : txt[k][2] # Tests[t][2]
                 /\ (content_type # 0 /\ Matching(content_type) # {}
                       => \E t \in EarlierTests : txt[k][2] = Tests[t][2])

C12_Witness ==
    /\ pc = "wc_meta" /\ content_type = 262144
    /\ Matching(content_type) = {5, 6, 9}
    /\ Last(txt) = <<"Content type", "Game trailer">>

\* C11: PathTable starts as {0xFFFF -> empty path}; a step changes it only
\* by adding one entry, when it handles a directory-type record that passed
\* validation; no entry present is ever changed or removed, and index
\* 0xFFFF maps to the empty path after every step.
C11_Original ==
    [][/\ \A k \in DOMAIN paths :
             k \in DOMAIN paths' /\ paths'[k] = paths[k]
       /\ paths' # paths =>
             /\ Len(log') = Len(log) + 1
             /\ IsDirRec(Last(log').rec) /\ ~Violates(Last(log').rec)
             /\ Last(log').out = "dir"
             /\ Cardinality(DOMAIN paths') = Cardinality(DOMAIN paths) + 1
       /\ RootIndex \in DOMAIN paths' /\ paths'[RootIndex] = <<>>]_vars

\* Every directory record handled so far found or made its directory (no
\* file of that name was in the way).
DirsMade ==
    \A j \in 1 .. Len(log) :
        log[j].out = "dir" => Append(log[j].at, log[j].rec.outname) \in dirs

\* C13: with makedir true and every directory creation successful, between
\* two records of a scan that has raised nothing the working directory is
\* the output directory followed by PathTable[oldpathind], as many levels
\* below it as that path has components, and on normal return it is the
\* output directory again; with makedir false the working directory and the
\* file system are never changed.
C13_Original ==
    /\ (makedir /\ DirsMade /\ pc = "fd_for") =>
          /\ oldpathind \in DOMAIN paths
          /\ cwd = paths[oldpathind]
          /\ Len(cwd) = Len(paths[oldpathind])
          /\ \A k \in 1 .. Len(cwd) : cwd[k] # ".."
    /\ (makedir /\ DirsMade /\ pc = "fd_done") => cwd = <<>>
    /\ ~makedir => cwd = <<"..">> /\ dirs = {} /\ files = {}

=============================================================================
